---- MODULE Spec2Model ----
(***************************************************************************)
(* Model of the Cyberorganism Logseq terminal plugin                       *)
(* (src/src/plugin/index.js): the sidebar, the xterm terminal, the health  *)
(* probe, the WebSocket and the reconnect timer, driven by the browser's   *)
(* single event loop.  Every action is one task of that loop: a user       *)
(* command, a terminal or window event, a timer callback, a fetch          *)
(* continuation or a WebSocket event.                                      *)
(*                                                                         *)
(* The backend server is managed by src/server.sh.  The script and the     *)
(* server processes of the machine are a second state machine (ServerSpec) *)
(* whose steps are the script's commands and the processes' exits.         *)
(***************************************************************************)
EXTENDS Integers, Sequences, FiniteSets, TLC

VARIABLES
  terminalSidebar,  \* "undefined" | "flex" | "none"  (terminalSidebar.style.display)
  termSize,         \* <<terminal.cols, terminal.rows>>
  termLog,          \* the calls made on the terminal, in order
  websocket,        \* 0 (undefined) or the index in sockets of the current WebSocket
  sockets,          \* every WebSocket created so far: [readyState]
  sendLog,          \* every websocket.send call: [sock, rs, frame]
  fetches,          \* health fetches in flight
  timers,           \* pending setTimeout callbacks: [kind, armed, due]
  now,              \* the clock, in ms
  container,        \* the <<cols, rows>> the fit addon proposes for the container
  backendUp,        \* whether the backend server is running and healthy
  inputLog,         \* every terminal.onData event: [data, open]
  recvLog,          \* every message event: [sock, wire]
  probeLog,         \* every health probe issued: [at, cause, armed]
  resultLog,        \* every health probe outcome: the status, or NetworkError
  hidePending,      \* the arming times of the reconnect timers that were pending at a hide
  onDataHandlers,   \* number of handlers registered with terminal.onData
  resizeListeners,  \* number of 'resize' listeners registered on the window
  servers,          \* every server process started so far: [build, alive, signalled]
  shPc,             \* where server.sh is: "idle" | "ps" | "kill" | "sleep" | "build" | "run"
  shCmd,            \* the command server.sh was called with ($1)
  SERVER_PID,       \* the pids stop_server found
  existing,         \* the servers that were running when server.sh was called
  launchLog,        \* for every server start_server launched: the existing servers alive then
  nEvents           \* number of environment events so far

vars == <<terminalSidebar, termSize, termLog, websocket, sockets, sendLog, fetches,
          timers, now, container, backendUp, inputLog, recvLog, probeLog, resultLog,
          hidePending, onDataHandlers, resizeListeners, servers, shPc, shCmd,
          SERVER_PID, existing, launchLog, nEvents>>

pluginVars == <<terminalSidebar, termSize, termLog, websocket, sockets, sendLog, fetches,
                timers, now, container, backendUp, inputLog, recvLog, probeLog, resultLog,
                hidePending, onDataHandlers, resizeListeners>>

shellVars == <<servers, shPc, shCmd, SERVER_PID, existing, launchLog>>

----------------------------------------------------------------------------
(* Bounds and program constants *)

\* number of environment events (user commands, input, frames, drops, ...)
MaxEvents == 4
\* the same, for the behaviours checked for liveness
MaxLiveEvents == 3

\* setTimeout(..., 5000) of onclose
ReconnectDelay == 5000
\* setTimeout(..., 100) of openTerminal and toggleTerminal
FitDelay == 100
\* xterm's size before the first fit
DefaultCols == 80
DefaultRows == 24

\* characters, as UTF-16 code units
BS == 8
TAB == 9
LF == 10
FF == 12
CR == 13
ESC == 27
QUOTE == 34
BACKSLASH == 92

Sizes == {<<DefaultCols, DefaultRows>>, <<120, 40>>}

\* what the user types or pastes, and what the terminal answers to queries
InputData == {<<108, 115, CR>>, <<ESC, QUOTE, BACKSLASH>>}

\* what the shell prints
OutputData == {<<108, 115, CR, LF>>, <<ESC, BACKSLASH, QUOTE>>}

\* fetch rejected: no HTTP status
NetworkError == 0

HealthStatuses(up) == IF up THEN {200, 204} ELSE {NetworkError, 503}

----------------------------------------------------------------------------
(* JSON string encoding, as JSON.stringify and JSON.parse do it *)

Hex(n) == IF n < 10 THEN 48 + n ELSE 87 + n

\* \uXXXX, in lower-case hexadecimal
UEscape(c) ==
  <<BACKSLASH, 117, Hex(c \div 4096), Hex((c \div 256) % 16), Hex((c \div 16) % 16), Hex(c % 16)>>

HighSurrogate(c) == c >= 55296 /\ c <= 56319
LowSurrogate(c) == c >= 56320 /\ c <= 57343

\* an encoder that replaces control characters by "?"
JsonEscapeCharLossy(c) ==
  IF c = QUOTE THEN <<BACKSLASH, QUOTE>>
  ELSE IF c = BACKSLASH THEN <<BACKSLASH, BACKSLASH>>
  ELSE IF c < 32 THEN <<63>>
  ELSE <<c>>

\* one code unit of a string under JSON.stringify: \" and \\, the short
\* escapes \b \t \n \f \r, \u00xx for the other control characters, \udxxx
\* for a surrogate that is not part of a pair
JsonEscapeChar(c) ==
  IF c = QUOTE THEN <<BACKSLASH, QUOTE>>
  ELSE IF c = BACKSLASH THEN <<BACKSLASH, BACKSLASH>>
  ELSE IF c = BS THEN <<BACKSLASH, 98>>
  ELSE IF c = TAB THEN <<BACKSLASH, 116>>
  ELSE IF c = LF THEN <<BACKSLASH, 110>>
  ELSE IF c = FF THEN <<BACKSLASH, 102>>
  ELSE IF c = CR THEN <<BACKSLASH, 114>>
  ELSE IF c < 32 \/ HighSurrogate(c) \/ LowSurrogate(c) THEN UEscape(c)
  ELSE <<c>>

\* a surrogate pair is copied, every other code unit goes through JsonEscapeChar
RECURSIVE JsonQuote(_)
JsonQuote(s) ==
  IF s = <<>> THEN <<>>
  ELSE IF Len(s) >= 2 /\ HighSurrogate(s[1]) /\ LowSurrogate(s[2])
       THEN <<s[1], s[2]>> \o JsonQuote(SubSeq(s, 3, Len(s)))
       ELSE JsonEscapeChar(Head(s)) \o JsonQuote(Tail(s))

\* a hexadecimal digit of either case
UnHex(h) == IF h < 58 THEN h - 48 ELSE IF h < 71 THEN h - 55 ELSE h - 87

\* the character a two-character escape stands for
UnEscape(e) ==
  IF e = 98 THEN BS
  ELSE IF e = 116 THEN TAB
  ELSE IF e = 110 THEN LF
  ELSE IF e = 102 THEN FF
  ELSE IF e = 114 THEN CR
  ELSE e

\* the string JSON.parse reads from the text of a string that parsed
RECURSIVE JsonUnquote(_)
JsonUnquote(q) ==
  IF q = <<>> THEN <<>>
  ELSE IF Head(q) # BACKSLASH THEN <<Head(q)>> \o JsonUnquote(Tail(q))
  ELSE IF q[2] = 117
       THEN <<UnHex(q[3]) * 4096 + UnHex(q[4]) * 256 + UnHex(q[5]) * 16 + UnHex(q[6])>>
            \o JsonUnquote(SubSeq(q, 7, Len(q)))
       ELSE <<UnEscape(q[2])>> \o JsonUnquote(SubSeq(q, 3, Len(q)))

\* JSON.stringify({ type: 'input', data })
InputFrame(data) == [type |-> "input", data |-> JsonQuote(data), cols |-> 0, rows |-> 0]

\* JSON.stringify({ type: 'resize', cols, rows })
ResizeFrame(size) == [type |-> "resize", data |-> <<>>, cols |-> size[1], rows |-> size[2]]

\* the texts the server may put on the stream: JSON objects with a type and a
\* quoted data string, and text that is no JSON at all
WireFrames ==
  {[json |-> TRUE, type |-> "output", data |-> JsonQuote(d)] : d \in OutputData}
  \cup {[json |-> TRUE, type |-> "error", data |-> JsonQuote(<<101>>)],
        [json |-> TRUE, type |-> "bogus", data |-> JsonQuote(<<120>>)],
        [json |-> FALSE, type |-> "", data |-> <<123, 120>>]}

----------------------------------------------------------------------------
(* The terminal *)

Writeln(msg) == [op |-> "writeln", msg |-> msg, data |-> <<>>]
Write(data) == [op |-> "write", msg |-> "", data |-> data]
WritelnError(data) == [op |-> "writeln", msg |-> "Error", data |-> data]
Clear == [op |-> "clear", msg |-> "", data |-> <<>>]

StartHint == <<Writeln("Please start the backend server"), Writeln("cargo run --bin server")>>
NotRunningDiag == <<Writeln("Backend server is not running")>> \o StartHint
CannotConnectDiag == <<Writeln("Cannot connect to backend server")>> \o StartHint
Welcome == <<Clear, Writeln("Cyberorganism Terminal"), Writeln("Connected to backend server")>>

----------------------------------------------------------------------------
(* The WebSocket *)

\* a guard that forgets the readyState test
CanSendAnyState == websocket # 0

\* websocket && websocket.readyState === WebSocket.OPEN
CanSend == websocket # 0 /\ sockets[websocket].readyState = "OPEN"

\* websocket.send(frame): a call on the current socket, in the state socks[websocket]
SendOn(log, socks, frame) ==
  Append(log, [sock |-> websocket, rs |-> socks[websocket].readyState, frame |-> frame])

\* the same call made n times, once by each of n handlers of one event
RECURSIVE SendTimes(_, _, _, _)
SendTimes(log, socks, frame, n) ==
  IF n = 0 THEN log ELSE SendTimes(SendOn(log, socks, frame), socks, frame, n - 1)

SetReadyState(socks, s, rs) == [socks EXCEPT ![s].readyState = rs]

\* a setTimeout whose delay argument is dropped
TimerNoDelay(kind) == [kind |-> kind, armed |-> now, due |-> now]

Timer(kind) == [kind |-> kind, armed |-> now, due |-> now + (IF kind = "reconnect" THEN ReconnectDelay ELSE FitDelay)]

\* the pending callbacks armed by onclose
PendingReconnects == {i \in 1..Len(timers) : timers[i].kind = "reconnect"}

RemoveAt(seq, i) == SubSeq(seq, 1, i - 1) \o SubSeq(seq, i + 1, Len(seq))

Init ==
  /\ terminalSidebar = "undefined"
  /\ termSize = <<DefaultCols, DefaultRows>>
  /\ termLog = <<>>
  /\ websocket = 0
  /\ sockets = <<>>
  /\ sendLog = <<>>
  /\ fetches = 0
  /\ timers = <<>>
  /\ now = 0
  /\ container = <<DefaultCols, DefaultRows>>
  /\ backendUp \in BOOLEAN
  /\ inputLog = <<>>
  /\ recvLog = <<>>
  /\ probeLog = <<>>
  /\ resultLog = <<>>
  /\ hidePending = {}
  /\ onDataHandlers = 0
  /\ resizeListeners = 0
  /\ servers = <<>>
  /\ shPc = "idle"
  /\ shCmd = "none"
  /\ SERVER_PID = {}
  /\ existing = {}
  /\ launchLog = <<>>
  /\ nEvents = 0

----------------------------------------------------------------------------
(* The plugin's functions *)

\* a test that forgets the display check
SidebarExists == terminalSidebar # "undefined"

\* terminalSidebar && terminalSidebar.style.display !== 'none'
SidebarOpen == terminalSidebar # "undefined" /\ terminalSidebar # "none"

\* a response.ok that forgets the upper end of the 2xx range
ResponseOkFrom200(status) == status >= 200

\* response.ok
ResponseOk(status) == status >= 200 /\ status <= 299

\* connectToBackend(): issues the health fetch; its continuation is HealthResponse
ConnectToBackend(cause, armed) ==
  /\ fetches' = fetches + 1
  /\ probeLog' = Append(probeLog, [at |-> now, cause |-> cause, armed |-> armed])

\* fitAddon.fit(), then a resize frame when the socket is open
\* (the timer of openTerminal)
FitAndSend ==
  /\ termSize' = container'
  /\ sendLog' = IF CanSend THEN SendOn(sendLog, sockets, ResizeFrame(termSize')) ELSE sendLog

\* the window's 'resize' event: every listener registered fits and sends a
\* resize frame when the socket is open
OnWindowResize ==
  IF resizeListeners = 0 THEN UNCHANGED <<termSize, sendLog>>
  ELSE /\ termSize' = container'
       /\ sendLog' = IF CanSend
                     THEN SendTimes(sendLog, sockets, ResizeFrame(termSize'), resizeListeners)
                     ELSE sendLog

\* an openTerminal that connects on every call
OpenTerminalAlwaysConnects ==
  /\ termSize' = IF terminalSidebar = "undefined" THEN container ELSE termSize
  /\ ConnectToBackend("open", now)
  /\ onDataHandlers' = (IF terminalSidebar = "undefined" THEN onDataHandlers + 1 ELSE onDataHandlers)
  /\ resizeListeners' = (IF terminalSidebar = "undefined" THEN resizeListeners + 1 ELSE resizeListeners)
  /\ terminalSidebar' = "flex"
  /\ timers' = Append(timers, Timer("fitOpen"))

\* an openTerminal that registers its handlers on every call
OpenTerminalRegistersAgain ==
  /\ IF terminalSidebar = "undefined"
     THEN /\ termSize' = container
          /\ ConnectToBackend("open", now)
     ELSE UNCHANGED <<termSize, fetches, probeLog>>
  /\ onDataHandlers' = onDataHandlers + 1
  /\ resizeListeners' = resizeListeners + 1
  /\ terminalSidebar' = "flex"
  /\ timers' = Append(timers, Timer("fitOpen"))

\* openTerminal(): the creation branch fits, connects and registers the input
\* handler and the window resize listener; every call shows the sidebar and
\* arms the fit timer
OpenTerminal ==
  /\ IF terminalSidebar = "undefined"
     THEN /\ termSize' = container
          /\ ConnectToBackend("open", now)
          /\ onDataHandlers' = onDataHandlers + 1
          /\ resizeListeners' = resizeListeners + 1
     ELSE UNCHANGED <<termSize, fetches, probeLog, onDataHandlers, resizeListeners>>
  /\ terminalSidebar' = "flex"
  /\ timers' = Append(timers, Timer("fitOpen"))

ToggleTerminal ==
  IF terminalSidebar = "undefined" THEN OpenTerminal
  ELSE IF terminalSidebar = "none"
  THEN /\ terminalSidebar' = "flex"
       /\ timers' = Append(timers, Timer("fitToggle"))
       /\ UNCHANGED <<termSize, fetches, probeLog, onDataHandlers, resizeListeners>>
  ELSE /\ terminalSidebar' = "none"
       /\ UNCHANGED <<timers, termSize, fetches, probeLog, onDataHandlers, resizeListeners>>

\* terminal.onData fires: every handler registered sends an input frame when
\* the socket is open
OnData(data) ==
  sendLog' = IF CanSend
             THEN SendTimes(sendLog, sockets, InputFrame(data), onDataHandlers)
             ELSE sendLog

\* a reconnect callback that gives up
ReconnectCallbackIdle(t) == UNCHANGED <<fetches, probeLog>>

\* the reconnect callback armed by onclose
ReconnectCallback(t) ==
  IF SidebarOpen THEN ConnectToBackend("timer", t.armed)
  ELSE UNCHANGED <<fetches, probeLog>>

\* the continuation of the health fetch: .then for a response, .catch for a rejection
OnHealth(status) ==
  IF status # NetworkError /\ ResponseOk(status)
  THEN /\ sockets' = Append(sockets, [readyState |-> "CONNECTING"])
       /\ websocket' = Len(sockets) + 1
       /\ UNCHANGED termLog
  ELSE /\ termLog' = termLog \o (IF status = NetworkError THEN CannotConnectDiag
                                                          ELSE NotRunningDiag)
       /\ UNCHANGED <<sockets, websocket>>

\* an onopen that announces a fixed 80x24 instead of the terminal's size
OnOpenFixedSize ==
  /\ sendLog' = SendOn(sendLog, sockets', ResizeFrame(<<DefaultCols, DefaultRows>>))
  /\ termLog' = termLog \o Welcome

\* websocket.onopen
OnOpen ==
  /\ sendLog' = SendOn(sendLog, sockets', ResizeFrame(termSize))
  /\ termLog' = termLog \o Welcome

\* an onmessage that writes the data of an output frame without decoding it
OnMessageRaw(m) ==
  /\ termLog' =
       IF ~m.json THEN Append(termLog, Write(m.data))
       ELSE IF m.type = "output" THEN Append(termLog, Write(m.data))
       ELSE IF m.type = "error" THEN Append(termLog, WritelnError(JsonUnquote(m.data)))
       ELSE termLog
  /\ UNCHANGED <<sockets, timers>>

\* an onmessage that closes the socket when the frame does not parse
OnMessageFatal(m) ==
  /\ termLog' =
       IF ~m.json THEN termLog
       ELSE IF m.type = "output" THEN Append(termLog, Write(JsonUnquote(m.data)))
       ELSE IF m.type = "error" THEN Append(termLog, WritelnError(JsonUnquote(m.data)))
       ELSE termLog
  /\ sockets' = IF ~m.json THEN SetReadyState(sockets, websocket, "CLOSING") ELSE sockets
  /\ UNCHANGED timers

\* websocket.onmessage: it writes to the terminal and touches neither the
\* socket nor a timer
OnMessage(m) ==
  /\ termLog' =
       IF ~m.json THEN Append(termLog, Write(m.data))
       ELSE IF m.type = "output" THEN Append(termLog, Write(JsonUnquote(m.data)))
       ELSE IF m.type = "error" THEN Append(termLog, WritelnError(JsonUnquote(m.data)))
       ELSE termLog
  /\ UNCHANGED <<sockets, timers>>

\* handlers that both schedule the reconnection: onerror and onclose
OnErrorAndCloseBothArm(clean) ==
  /\ termLog' = termLog
       \o (IF clean THEN <<>> ELSE <<Writeln("WebSocket error. Reconnecting...")>>)
       \o <<Writeln("Disconnected from backend server.")>>
  /\ timers' = timers \o (IF clean THEN <<>> ELSE <<Timer("reconnect")>>)
                      \o <<Timer("reconnect")>>

\* an onclose that reports the disconnection and schedules no reconnection
OnErrorAndCloseNoRetry(clean) ==
  /\ termLog' = termLog
       \o (IF clean THEN <<>> ELSE <<Writeln("WebSocket error. Reconnecting...")>>)
       \o <<Writeln("Disconnected from backend server.")>>
  /\ timers' = timers

\* websocket.onerror (when the close is not clean), then websocket.onclose
OnErrorAndClose(clean) ==
  /\ termLog' = termLog
       \o (IF clean THEN <<>> ELSE <<Writeln("WebSocket error. Reconnecting...")>>)
       \o <<Writeln("Disconnected from backend server.")>>
  /\ timers' = Append(timers, Timer("reconnect"))

----------------------------------------------------------------------------
(* The tasks of the event loop *)

Budget == nEvents < MaxEvents /\ nEvents' = nEvents + 1

\* the /terminal slash command
UserOpen ==
  /\ Budget
  /\ OpenTerminal
  /\ UNCHANGED <<termLog, websocket, sockets, sendLog, now, container, backendUp,
                 inputLog, recvLog, resultLog, hidePending>>
  /\ UNCHANGED shellVars

\* the toolbar button and the ctrl+` shortcut
UserToggle ==
  /\ Budget
  /\ ToggleTerminal
  /\ hidePending' = IF terminalSidebar' = "none"
                    THEN hidePending \cup {timers[i].armed : i \in PendingReconnects}
                    ELSE hidePending
  /\ UNCHANGED <<termLog, websocket, sockets, sendLog, now, container, backendUp,
                 inputLog, recvLog, resultLog>>
  /\ UNCHANGED shellVars

\* a key, a paste, or the terminal's answer to a query
TerminalData(d) ==
  /\ terminalSidebar # "undefined"
  /\ Budget
  /\ inputLog' = Append(inputLog,
        [data |-> d, open |-> \E s \in 1..Len(sockets) : sockets[s].readyState = "OPEN"])
  /\ OnData(d)
  /\ UNCHANGED <<terminalSidebar, termSize, termLog, websocket, sockets, fetches, timers,
                 now, container, backendUp, recvLog, probeLog, resultLog, hidePending>>
  /\ UNCHANGED <<onDataHandlers, resizeListeners>>
  /\ UNCHANGED shellVars

\* a 'resize' event of the window, after which the fit addon proposes sz
\* (the size may be the one it proposed before)
WindowResize(sz) ==
  /\ Budget
  /\ container' = sz
  /\ OnWindowResize
  /\ UNCHANGED <<terminalSidebar, termLog, websocket, sockets, fetches, timers, now,
                 backendUp, inputLog, recvLog, probeLog, resultLog, hidePending>>
  /\ UNCHANGED <<onDataHandlers, resizeListeners>>
  /\ UNCHANGED shellVars

\* a setTimeout callback runs, not before it is due
TimerFire(i) ==
  LET t == timers[i] IN
  /\ t.due <= now
  /\ timers' = RemoveAt(timers, i)
  /\ UNCHANGED container
  /\ CASE t.kind = "fitOpen" -> FitAndSend /\ UNCHANGED <<fetches, probeLog>>
       [] t.kind = "fitToggle" -> termSize' = container /\ UNCHANGED <<sendLog, fetches, probeLog>>
       [] t.kind = "reconnect" -> ReconnectCallback(t) /\ UNCHANGED <<termSize, sendLog>>
  /\ UNCHANGED <<terminalSidebar, termLog, websocket, sockets, now, backendUp,
                 inputLog, recvLog, resultLog, hidePending, nEvents>>
  /\ UNCHANGED <<onDataHandlers, resizeListeners>>
  /\ UNCHANGED shellVars

\* time passes, up to the next timer that is due
Advance ==
  /\ \E i \in 1..Len(timers) : timers[i].due > now
  /\ now' = CHOOSE d \in {timers[i].due : i \in 1..Len(timers)} :
               d > now /\ \A i \in 1..Len(timers) : timers[i].due > now => d <= timers[i].due
  /\ UNCHANGED <<terminalSidebar, termSize, termLog, websocket, sockets, sendLog, fetches,
                 timers, container, backendUp, inputLog, recvLog, probeLog, resultLog,
                 hidePending, nEvents>>
  /\ UNCHANGED <<onDataHandlers, resizeListeners>>
  /\ UNCHANGED shellVars

\* the health fetch settles
HealthResponse(status) ==
  /\ fetches > 0
  /\ fetches' = fetches - 1
  /\ resultLog' = Append(resultLog, status)
  /\ OnHealth(status)
  /\ UNCHANGED <<terminalSidebar, termSize, sendLog, timers, now, container, backendUp,
                 inputLog, recvLog, probeLog, hidePending, nEvents>>
  /\ UNCHANGED <<onDataHandlers, resizeListeners>>
  /\ UNCHANGED shellVars

\* the handshake completes: readyState becomes OPEN and onopen runs
WsOpen(s) ==
  /\ sockets[s].readyState = "CONNECTING"
  /\ backendUp
  /\ sockets' = SetReadyState(sockets, s, "OPEN")
  /\ OnOpen
  /\ UNCHANGED <<terminalSidebar, termSize, websocket, fetches, timers, now, container,
                 backendUp, inputLog, recvLog, probeLog, resultLog, hidePending, nEvents>>
  /\ UNCHANGED <<onDataHandlers, resizeListeners>>
  /\ UNCHANGED shellVars

\* a frame arrives on an open socket
WsMessage(s, m) ==
  /\ sockets[s].readyState = "OPEN"
  /\ Budget
  /\ recvLog' = Append(recvLog, [sock |-> s, wire |-> m])
  /\ OnMessage(m)
  /\ UNCHANGED <<terminalSidebar, termSize, websocket, sendLog, fetches,
                 now, container, backendUp, inputLog, probeLog, resultLog, hidePending>>
  /\ UNCHANGED <<onDataHandlers, resizeListeners>>
  /\ UNCHANGED shellVars

\* the server starts the closing handshake
WsClosing(s) ==
  /\ sockets[s].readyState = "OPEN"
  /\ Budget
  /\ sockets' = SetReadyState(sockets, s, "CLOSING")
  /\ UNCHANGED <<terminalSidebar, termSize, termLog, websocket, sendLog, fetches, timers,
                 now, container, backendUp, inputLog, recvLog, probeLog, resultLog, hidePending>>
  /\ UNCHANGED <<onDataHandlers, resizeListeners>>
  /\ UNCHANGED shellVars

\* the connection is gone: readyState becomes CLOSED, onerror runs when the close
\* is not clean, then onclose
WsClose(s, clean) ==
  /\ \/ sockets[s].readyState = "CONNECTING" /\ ~backendUp /\ ~clean /\ UNCHANGED nEvents
     \/ sockets[s].readyState = "OPEN" /\ Budget
     \/ sockets[s].readyState = "CLOSING" /\ clean /\ UNCHANGED nEvents
  /\ sockets' = SetReadyState(sockets, s, "CLOSED")
  /\ OnErrorAndClose(clean)
  /\ UNCHANGED <<terminalSidebar, termSize, websocket, sendLog, fetches, now, container,
                 backendUp, inputLog, recvLog, probeLog, resultLog, hidePending>>
  /\ UNCHANGED <<onDataHandlers, resizeListeners>>
  /\ UNCHANGED shellVars

\* the backend server stops or starts
BackendFlip ==
  /\ Budget
  /\ backendUp' = ~backendUp
  /\ UNCHANGED <<terminalSidebar, termSize, termLog, websocket, sockets, sendLog, fetches,
                 timers, now, container, inputLog, recvLog, probeLog, resultLog, hidePending>>
  /\ UNCHANGED <<onDataHandlers, resizeListeners>>
  /\ UNCHANGED shellVars

Next ==
  \/ UserOpen
  \/ UserToggle
  \/ \E d \in InputData : TerminalData(d)
  \/ \E sz \in Sizes : WindowResize(sz)
  \/ \E i \in 1..Len(timers) : TimerFire(i)
  \/ Advance
  \/ \E status \in HealthStatuses(backendUp) : HealthResponse(status)
  \/ \E s \in 1..Len(sockets) : WsOpen(s)
  \/ \E s \in 1..Len(sockets), m \in WireFrames : WsMessage(s, m)
  \/ \E s \in 1..Len(sockets) : WsClosing(s)
  \/ \E s \in 1..Len(sockets), clean \in BOOLEAN : WsClose(s, clean)
  \/ BackendFlip

Spec == Init /\ [][Next]_vars

\* The event loop runs every task that is ready: time passes, a due timer
\* callback runs, a settled fetch runs its continuation, and an established or
\* closed connection delivers its event.
LiveNext == Next /\ nEvents' <= MaxLiveEvents

LiveSpec ==
  /\ Init
  /\ [][LiveNext]_vars
  /\ WF_vars(Advance)
  /\ WF_vars(\E i \in 1..Len(timers) : TimerFire(i))
  /\ WF_vars(\E status \in HealthStatuses(backendUp) : HealthResponse(status))
  /\ WF_vars(\E s \in 1..Len(sockets) : WsOpen(s))
  /\ WF_vars(\E s \in 1..Len(sockets) : WsClose(s, TRUE) /\ nEvents' = nEvents)

\* The same event loop against a backend that may accept the health request
\* and never answer it: the continuation of the fetch runs only if an answer
\* comes, and the plugin sets no timer and no abort signal on the fetch.
HangSpec ==
  /\ Init
  /\ [][LiveNext]_vars
  /\ WF_vars(Advance)
  /\ WF_vars(\E i \in 1..Len(timers) : TimerFire(i))
  /\ WF_vars(\E s \in 1..Len(sockets) : WsOpen(s))
  /\ WF_vars(\E s \in 1..Len(sockets) : WsClose(s, TRUE) /\ nEvents' = nEvents)

----------------------------------------------------------------------------
(* server.sh and the server processes *)

\* the commands of the case statement
Commands == {"start", "stop", "restart", "build"}

\* the server binary a process runs: target/debug/server (cargo run --bin
\* server) or target/release/server (cargo run --bin server --release)
Builds == {"debug", "release"}

AliveServers == {p \in 1..Len(servers) : servers[p].alive}

\* grep "target/debug/server" on the process's command line
GrepDebugServer(p) == servers[p].build = "debug"

\* where the script goes when stop_server returns
AfterStop == IF shCmd = "stop" THEN "idle" ELSE "build"

\* ./server.sh <command>
Invoke(cmd) ==
  /\ shPc = "idle"
  /\ Budget
  /\ shCmd' = cmd
  /\ shPc' = IF cmd = "build" THEN "build" ELSE "ps"
  /\ existing' = AliveServers
  /\ UNCHANGED <<servers, SERVER_PID, launchLog>>
  /\ UNCHANGED pluginVars

\* stop_server: SERVER_PID=$(ps aux | grep "target/debug/server" | ...)
StopServerPs ==
  /\ shPc = "ps"
  /\ SERVER_PID' = {p \in AliveServers : GrepDebugServer(p)}
  /\ shPc' = IF SERVER_PID' # {} THEN "kill" ELSE AfterStop
  /\ UNCHANGED <<servers, shCmd, existing, launchLog, nEvents>>
  /\ UNCHANGED pluginVars

\* stop_server: kill $SERVER_PID sends SIGTERM to every pid that still exists;
\* it fails, which ends the script (set -e), only when it could signal none
StopServerKill ==
  /\ shPc = "kill"
  /\ servers' = [p \in 1..Len(servers) |->
                   IF p \in SERVER_PID /\ servers[p].alive
                   THEN [servers[p] EXCEPT !.signalled = TRUE] ELSE servers[p]]
  /\ shPc' = IF SERVER_PID \cap AliveServers # {} THEN "sleep" ELSE "idle"
  /\ UNCHANGED <<shCmd, SERVER_PID, existing, launchLog, nEvents>>
  /\ UNCHANGED pluginVars

\* stop_server: sleep 1, echo "Server stopped." and return
StopServerSleep ==
  /\ shPc = "sleep"
  /\ shPc' = AfterStop
  /\ UNCHANGED <<servers, shCmd, SERVER_PID, existing, launchLog, nEvents>>
  /\ UNCHANGED pluginVars

\* cargo build --bin server, of start_server and of the build command; a
\* failed build ends the script (set -e)
CargoBuild(ok) ==
  /\ shPc = "build"
  /\ shPc' = IF ok /\ shCmd # "build" THEN "run" ELSE "idle"
  /\ UNCHANGED <<servers, shCmd, SERVER_PID, existing, launchLog, nEvents>>
  /\ UNCHANGED pluginVars

\* start_server: cargo run --bin server launches target/debug/server
CargoRun ==
  /\ shPc = "run"
  /\ servers' = Append(servers, [build |-> "debug", alive |-> TRUE, signalled |-> FALSE])
  /\ launchLog' = Append(launchLog, AliveServers \cap existing)
  /\ shPc' = "idle"
  /\ UNCHANGED <<shCmd, SERVER_PID, existing, nEvents>>
  /\ UNCHANGED pluginVars

\* the user starts a server by hand while none is running
ManualStart(build) ==
  /\ AliveServers = {}
  /\ Budget
  /\ servers' = Append(servers, [build |-> build, alive |-> TRUE, signalled |-> FALSE])
  /\ UNCHANGED <<shPc, shCmd, SERVER_PID, existing, launchLog>>
  /\ UNCHANGED pluginVars

\* a server process exits: after a SIGTERM, whenever its shutdown is done, or
\* on its own
ServerExit(p) ==
  /\ servers[p].alive
  /\ IF servers[p].signalled THEN UNCHANGED nEvents ELSE Budget
  /\ servers' = [servers EXCEPT ![p].alive = FALSE]
  /\ UNCHANGED <<shPc, shCmd, SERVER_PID, existing, launchLog>>
  /\ UNCHANGED pluginVars

ServerNext ==
  \/ \E cmd \in Commands : Invoke(cmd)
  \/ StopServerPs
  \/ StopServerKill
  \/ StopServerSleep
  \/ \E ok \in BOOLEAN : CargoBuild(ok)
  \/ CargoRun
  \/ \E build \in Builds : ManualStart(build)
  \/ \E p \in 1..Len(servers) : ServerExit(p)

ServerSpec == Init /\ [][ServerNext]_vars

----------------------------------------------------------------------------
(* Session states of the connector, read off the plugin's state *)

Connected == \E s \in 1..Len(sockets) : sockets[s].readyState = "OPEN"
Connecting == \E s \in 1..Len(sockets) : sockets[s].readyState = "CONNECTING"
Probing == fetches > 0
Reconnecting == PendingReconnects # {}

ClosedSockets == {s \in 1..Len(sockets) : sockets[s].readyState = "CLOSED"}

\* the sockets that reach readyState rs in this step
Becomes(rs) ==
  {s \in 1..Len(sockets') :
     sockets'[s].readyState = rs /\ (s > Len(sockets) \/ sockets[s].readyState # rs)}

ProbeFailed(status) == status = NetworkError \/ status < 200 \/ status > 299

IsDiagnostic(entries) ==
  /\ entries # <<>>
  /\ \A i \in 1..Len(entries) : entries[i].op = "writeln" /\ entries[i].msg # ""

\* the entries a step appends to a log
Added(log, log2) == SubSeq(log2, Len(log) + 1, Len(log2))

IsInput(e) == e.frame.type = "input"
InputsSent == SelectSeq(sendLog, IsInput)

----------------------------------------------------------------------------
(* C1..C5: probe failure, first frame, input forwarding, output rendering *)

\* C1: a health probe that ends in failure (a non-2xx status or a transport
\* error) creates no WebSocket and writes a diagnostic to the terminal.
C1_FailedProbeOpensNoStream ==
  [][(Len(resultLog') = Len(resultLog) + 1 /\ ProbeFailed(resultLog'[Len(resultLog')]))
       => /\ sockets' = sockets
          /\ websocket' = websocket
          /\ Len(termLog') > Len(termLog)
          /\ SubSeq(termLog', 1, Len(termLog)) = termLog
          /\ IsDiagnostic(Added(termLog, termLog'))]_vars

\* a reconnection probe failed after a first connection: one socket, two probes
C1_Witness ==
  /\ Len(resultLog) = 2
  /\ ~ProbeFailed(resultLog[1])
  /\ ProbeFailed(resultLog[2])
  /\ Len(sockets) = 1
  /\ fetches = 0

\* C2: when a socket opens, the frame sent in that step is the first call of
\* send on it, a resize frame with the terminal's current cols and rows; no
\* frame was sent and no message rendered on that socket before.
C2_ResizeFirstOnOpen ==
  [][\A s \in Becomes("OPEN") :
       /\ \A i \in 1..Len(sendLog) : sendLog[i].sock # s
       /\ \A i \in 1..Len(recvLog) : recvLog[i].sock # s
       /\ recvLog' = recvLog
       /\ sendLog' = Append(sendLog,
            [sock |-> s, rs |-> "OPEN",
             frame |-> [type |-> "resize", data |-> <<>>,
                        cols |-> termSize'[1], rows |-> termSize'[2]]])]_vars

\* a reconnection opened its socket after the window had been resized
C2_Witness ==
  /\ Len(sockets) = 2
  /\ sockets[2].readyState = "OPEN"
  /\ termSize # <<DefaultCols, DefaultRows>>
  /\ \E i \in 1..Len(sendLog) :
        /\ sendLog[i].sock = 2
        /\ sendLog[i].frame.type = "resize"
        /\ sendLog[i].frame.cols = termSize[1]

\* C3: an input event that arrives while no stream is open sends nothing, and
\* no step other than an input event on an open stream ever sends an input
\* frame: nothing is buffered and replayed later.
C3_NoInputUnlessOpen ==
  [][LET event == Len(inputLog') = Len(inputLog) + 1
         sent == SelectSeq(Added(sendLog, sendLog'), IsInput)
     IN  /\ (event /\ ~inputLog'[Len(inputLog')].open) => sendLog' = sendLog
         /\ ~event => sent = <<>>
         /\ Len(sent) <= 1]_vars

\* an input was dropped while the socket was connecting, and the session then
\* connected and forwarded a later input only
C3_Witness ==
  /\ Len(inputLog) = 2
  /\ ~inputLog[1].open
  /\ inputLog[2].open
  /\ Len(InputsSent) = 1

\* C4: the input frames sent are, in order, one per input event that arrived
\* while a stream was open, and each decodes to the event's data.
C4_InputsForwardedVerbatim ==
  LET IsOpen(e) == e.open
      events == SelectSeq(inputLog, IsOpen)
  IN  /\ Len(InputsSent) = Len(events)
      /\ \A i \in 1..Len(events) :
            /\ InputsSent[i].rs = "OPEN"
            /\ JsonUnquote(InputsSent[i].frame.data) = events[i].data

\* two different inputs, one with escape, quote and backslash, were forwarded
C4_Witness ==
  /\ Len(InputsSent) = 2
  /\ InputsSent[1].frame.data # InputsSent[2].frame.data
  /\ \E i \in 1..2 : JsonUnquote(InputsSent[i].frame.data) = <<ESC, QUOTE, BACKSLASH>>

IsTermWrite(e) == e.op = "write"
IsOutputFrame(e) == e.wire.json /\ e.wire.type = "output"
\* the bytes the server encoded into an output frame
Payload(e) == CHOOSE d \in OutputData : JsonQuote(d) = e.wire.data

\* C5: when every frame received so far is well-formed JSON, the payloads
\* written to the terminal are the payloads of the output frames received,
\* unchanged, in order, each once.
C5_OutputWrittenVerbatim ==
  (\A i \in 1..Len(recvLog) : recvLog[i].wire.json)
    => LET written == SelectSeq(termLog, IsTermWrite)
           outputs == SelectSeq(recvLog, IsOutputFrame)
       IN  /\ Len(written) = Len(outputs)
           /\ \A i \in 1..Len(outputs) : written[i].data = Payload(outputs[i])

\* two different output frames, one with escape bytes, were written
C5_Witness ==
  /\ Len(recvLog) = 2
  /\ \A i \in 1..2 : IsOutputFrame(recvLog[i])
  /\ recvLog[1].wire # recvLog[2].wire
  /\ Len(SelectSeq(termLog, IsTermWrite)) = 2

----------------------------------------------------------------------------
(* C7..C10: the reconnect timer *)

\* the reconnect timers whose callback runs in this step
FiredReconnects ==
  {i \in PendingReconnects : timers[i].due <= now /\ timers' = RemoveAt(timers, i)}

ProbeIssued == Len(probeLog') = Len(probeLog) + 1

\* C7: the client never stops retrying while the terminal is open: when the
\* health probe of a reconnection attempt fails with the terminal open, after
\* a stream that had been open was dropped, another attempt is under way (a
\* reconnect timer is pending or a probe is in flight).
C7_RetryAfterFailedProbe ==
  [][(/\ Len(resultLog') = Len(resultLog) + 1
      /\ ProbeFailed(resultLog'[Len(resultLog')])
      /\ probeLog[Len(probeLog)].cause = "timer"
      /\ sendLog # <<>>
      /\ terminalSidebar = "flex")
       => (\E i \in 1..Len(timers') : timers'[i].kind = "reconnect") \/ fetches' > 0]_vars

\* C8: each stream drop arms exactly one timer of 5000 ms and nothing else
\* does; a probe other than the first one is issued only by the callback of
\* such a timer, not before 5000 ms have passed since the drop that armed it;
\* so the (N+1)-th probe comes after N drops and N full intervals.
C8_OneIntervalPerDrop ==
  [][/\ Becomes("CLOSED") # {}
          => timers' = Append(timers, [kind |-> "reconnect", armed |-> now, due |-> now + 5000])
     /\ Becomes("CLOSED") = {}
          => \A i \in 1..Len(timers') : timers'[i].kind = "reconnect"
               => \E j \in PendingReconnects : timers[j] = timers'[i]
     /\ Len(probeLog') # Len(probeLog)
          => /\ ProbeIssued
             /\ probeLog = <<>> \/ FiredReconnects # {}
             /\ probeLog = <<>> \/ now >= probeLog'[Len(probeLog')].armed + 5000
     /\ Len(probeLog') <= 1 + Cardinality({s \in 1..Len(sockets') : sockets'[s].readyState = "CLOSED"})
     /\ \A k \in 2..Len(probeLog') : probeLog'[k].at >= probeLog'[k - 1].at + 5000]_vars

\* two drops, and the third probe issued two intervals after the first
C8_Witness ==
  /\ Len(probeLog) = 3
  /\ Cardinality(ClosedSockets) = 2
  /\ probeLog[3].at = probeLog[1].at + 2 * 5000

\* C9: when the callback of a reconnect timer runs, it issues a health probe
\* if and only if the sidebar exists and is not hidden; it never creates a
\* socket itself.
C9_ProbeIffOpenAtExpiry ==
  [][FiredReconnects # {}
       => /\ ProbeIssued <=> terminalSidebar = "flex"
          /\ fetches' = fetches + (IF terminalSidebar = "flex" THEN 1 ELSE 0)
          /\ sockets' = sockets
          /\ websocket' = websocket]_vars

\* a reconnect timer expired while the terminal was hidden: a drop without a
\* pending timer and without a second probe
C9_Witness ==
  /\ terminalSidebar = "none"
  /\ Cardinality(ClosedSockets) = 1
  /\ PendingReconnects = {}
  /\ Len(probeLog) = 1
  /\ fetches = 0

\* C10: hiding the terminal cancels the pending reconnect timer: no probe is
\* ever issued by a timer that was pending when the user hid the terminal.
C10_HideCancelsTimer ==
  \A k \in 1..Len(probeLog) :
    probeLog[k].cause = "timer" => probeLog[k].armed \notin hidePending

----------------------------------------------------------------------------
(* C6: automatic reconnection *)

\* the current stream was closed and its reconnect timer is pending
Dropped ==
  /\ websocket # 0
  /\ sockets[websocket].readyState = "CLOSED"
  /\ Reconnecting

\* C6: after the stream was closed, if from then on the terminal stays open
\* and the backend stays up, the session is eventually Probing, then
\* Connecting, then Connected, without any user command.
C6_ReconnectsAfterDrop ==
  [](Dropped => ([](terminalSidebar = "flex" /\ backendUp)
                   => <>(Probing /\ <>(Connecting /\ <>Connected))))

\* the first stream was open and was closed, the second one is open, and the
\* only user command was the one that opened the terminal
C6_Witness ==
  /\ Len(sockets) = 2
  /\ sockets[1].readyState = "CLOSED"
  /\ sockets[2].readyState = "OPEN"
  /\ \E i \in 1..Len(sendLog) : sendLog[i].sock = 1
  /\ nEvents = 2
  /\ Len(probeLog) = 2
  /\ probeLog[2].cause = "timer"

----------------------------------------------------------------------------
(* C11..C13: user close, re-open, malformed frames *)

Disconnected ==
  /\ ~Probing
  /\ ~Reconnecting
  /\ \A s \in 1..Len(sockets) : sockets[s].readyState = "CLOSED"

\* C11: an explicit user close (hiding the terminal) tears down any live
\* stream: after the step that hides the sidebar no socket of the session is
\* connecting or open.
C11_CloseTearsDownStream ==
  [][(terminalSidebar = "flex" /\ terminalSidebar' = "none")
       => \A s \in 1..Len(sockets') : sockets'[s].readyState \in {"CLOSING", "CLOSED"}]_vars

\* C12: a terminal-open request made while the session is Disconnected issues
\* a health probe.
C12_OpenWhenDisconnectedProbes ==
  [][(Disconnected /\ terminalSidebar # "flex" /\ terminalSidebar' = "flex")
       => fetches' = fetches + 1 /\ ProbeIssued]_vars

\* the frame received in this step, when the step is a message event
Received == recvLog'[Len(recvLog')].wire
MessageEvent == Len(recvLog') = Len(recvLog) + 1
Malformed(w) == ~w.json \/ w.type \notin {"output", "error"}

\* C13: a received frame that does not parse, or has a missing or unknown
\* type, is dropped: the step that receives it writes nothing to the terminal.
C13_MalformedFrameDropped ==
  [][(MessageEvent /\ Malformed(Received)) => termLog' = termLog]_vars

----------------------------------------------------------------------------
(* C14..C16: malformed frames are not fatal, error frames, resize dispatch *)

\* C14: the step that receives a malformed frame leaves every socket, the
\* current socket, the timers and the fetches as they were; and an output
\* frame received on a socket after a malformed one is still written.
C14_MalformedFrameNotFatal ==
  [][MessageEvent
       => /\ Malformed(Received)
               => /\ sockets' = sockets
                  /\ websocket' = websocket
                  /\ timers' = timers
                  /\ fetches' = fetches
          /\ (/\ IsOutputFrame(recvLog'[Len(recvLog')])
              /\ \E i \in 1..Len(recvLog) :
                    /\ recvLog[i].sock = recvLog'[Len(recvLog')].sock
                    /\ Malformed(recvLog[i].wire))
               => termLog' = Append(termLog, Write(Payload(recvLog'[Len(recvLog')])))]_vars

\* a text that is no JSON, then an output frame, on a socket that is still
\* open, with the output written last and no reconnect timer
C14_Witness ==
  /\ Len(recvLog) = 2
  /\ ~recvLog[1].wire.json
  /\ IsOutputFrame(recvLog[2])
  /\ recvLog[1].sock = recvLog[2].sock
  /\ sockets[recvLog[2].sock].readyState = "OPEN"
  /\ termLog[Len(termLog)] = Write(Payload(recvLog[2]))
  /\ ~Reconnecting

\* C15: the step that receives an error frame takes the session out of
\* Connected: the socket it arrived on is no longer open.
C15_ErrorFrameEndsSession ==
  [][(MessageEvent /\ Received.json /\ Received.type = "error")
       => sockets'[recvLog'[Len(recvLog')].sock].readyState # "OPEN"]_vars

\* the window's 'resize' event is the one environment event that leaves the
\* sidebar, the timers, the sockets, the backend and the event logs alone
WindowResizeStep ==
  /\ nEvents' = nEvents + 1
  /\ UNCHANGED <<terminalSidebar, timers, sockets, backendUp, inputLog, recvLog, shellVars>>

\* the steps that re-fit the terminal to its container: the window resize
\* listener, and the timers armed when the terminal is shown
FitStep ==
  \/ WindowResizeStep /\ terminalSidebar # "undefined"
  \/ \E i \in 1..Len(timers) :
       timers[i].kind \in {"fitOpen", "fitToggle"} /\ timers' = RemoveAt(timers, i)

\* C16: every step that re-fits the terminal sends one resize frame with the
\* new cols and rows when the socket is open, and sends nothing otherwise.
C16_ResizeOnEveryFit ==
  [][FitStep
       => sendLog' = IF Connected
                     THEN Append(sendLog,
                            [sock |-> websocket, rs |-> "OPEN",
                             frame |-> [type |-> "resize", data |-> <<>>,
                                        cols |-> termSize'[1], rows |-> termSize'[2]]])
                     ELSE sendLog]_vars

----------------------------------------------------------------------------
(* C17..C20: probe timeout, readiness, one timer, one stream *)

\* C17: every health probe resolves: the session never stays in Probing for
\* ever, even when the backend never answers.
C17_ProbeResolves == Probing ~> ~Probing

\* C18: the backend is ready only on status 200: a probe that ends with any
\* other status, another 2xx one included, or with a transport failure,
\* creates no socket.
C18_ReadyOnlyOn200 ==
  [][(Len(resultLog') = Len(resultLog) + 1 /\ resultLog'[Len(resultLog')] # 200)
       => sockets' = sockets /\ websocket' = websocket]_vars

\* C19: at most one reconnect timer is pending, also after a close that
\* delivered an error event and a close event.
C19_OneReconnectTimer == Cardinality(PendingReconnects) <= 1

\* a socket was closed with an error event and a close event, and one
\* reconnect timer is pending
C19_Witness ==
  /\ Cardinality(PendingReconnects) = 1
  /\ \E i \in 1..Len(termLog) : termLog[i] = Writeln("WebSocket error. Reconnecting...")
  /\ ClosedSockets # {}

LiveSockets == {s \in 1..Len(sockets) : sockets[s].readyState # "CLOSED"}

\* C20: the session has at most one live socket: of the sockets created, only
\* the last one can be connecting, open or closing, and it is the current one.
C20_OneLiveStream ==
  /\ Cardinality(LiveSockets) <= 1
  /\ \A s \in LiveSockets : s = Len(sockets) /\ s = websocket
  /\ Cardinality(LiveSockets) + fetches + Cardinality(PendingReconnects) <= 1

\* a second socket is connecting after the first one was closed, after the
\* user had hidden and shown the terminal
C20_Witness ==
  /\ Len(sockets) = 2
  /\ sockets[1].readyState = "CLOSED"
  /\ sockets[2].readyState = "CONNECTING"
  /\ terminalSidebar = "flex"
  /\ \E i \in 1..Len(timers) : timers[i].kind = "fitToggle"

----------------------------------------------------------------------------
(* C21..C25: the edges of the session, the server script, hidden terminal, *)
(* handlers, sends                                                         *)

\* the state of the session: a socket that is open or closing is a stream in
\* use, a connecting one a stream being opened, a fetch in flight a probe, a
\* pending reconnect timer a reconnection being waited for
SessionState ==
  IF \E s \in 1..Len(sockets) : sockets[s].readyState \in {"OPEN", "CLOSING"} THEN "Connected"
  ELSE IF Connecting THEN "Connecting"
  ELSE IF Probing THEN "Probing"
  ELSE IF Reconnecting THEN "Reconnecting"
  ELSE "Disconnected"

\* the edges defined for the connector
DefinedEdges ==
  {<<"Disconnected", "Probing">>, <<"Probing", "Connecting">>,
   <<"Connecting", "Connected">>, <<"Probing", "Disconnected">>,
   <<"Connected", "Reconnecting">>, <<"Reconnecting", "Probing">>,
   <<"Reconnecting", "Disconnected">>}

\* the user hides the terminal
UserClose == terminalSidebar = "flex" /\ terminalSidebar' = "none"

\* the session moves in this step, along one of the given edges or to
\* Disconnected at a user close
MovesAlong(edges) ==
  SessionState' # SessionState =>
    \/ <<SessionState, SessionState'>> \in edges
    \/ UserClose /\ SessionState' = "Disconnected"

\* C21 as stated: the session moves only along the defined edges, or to
\* Disconnected on a user close; in particular never from Connecting to
\* Reconnecting.
C21_OnlyDefinedEdges == [][MovesAlong(DefinedEdges)]_vars

\* C21: the session moves only along the defined edges and the edge from
\* Connecting to Reconnecting, taken when the socket fails to open and its
\* close event arms the reconnect timer.
C21_DefinedEdgesAndFailedOpen ==
  [][MovesAlong(DefinedEdges \cup {<<"Connecting", "Reconnecting">>})]_vars

\* a socket was closed without ever having been open (onopen sent nothing on
\* it), and the reconnect timer its close event armed is pending
C21_Witness ==
  /\ SessionState = "Reconnecting"
  /\ Len(sockets) = 1
  /\ sockets[1].readyState = "CLOSED"
  /\ \A i \in 1..Len(sendLog) : sendLog[i].sock # 1

\* C23: no WebSocket is created while the terminal is hidden, also when the
\* user hid it while the health probe was in flight.
C23_NoStreamOpenWhileHidden ==
  [][Len(sockets') > Len(sockets) => terminalSidebar = "flex" /\ terminalSidebar' = "flex"]_vars

\* C25: every frame is sent on the most recently created socket while its
\* readyState is OPEN: never on a socket that is connecting, closing or
\* closed, and never on one that a newer socket has superseded.
C25_SendsOnlyOnOpenCurrentStream ==
  [][\A i \in (Len(sendLog) + 1)..Len(sendLog') :
       LET e == sendLog'[i] IN
       /\ e.rs = "OPEN"
       /\ e.sock = Len(sockets')
       /\ sockets'[e.sock].readyState = "OPEN"]_vars

\* after a reconnection: the first socket is closed, and both a resize frame
\* and an input frame were sent on the second one
C25_Witness ==
  /\ Len(sockets) = 2
  /\ sockets[1].readyState = "CLOSED"
  /\ \E i, j \in 1..Len(sendLog) :
       /\ sendLog[i].sock = 2 /\ sendLog[i].frame.type = "resize"
       /\ sendLog[j].sock = 2 /\ sendLog[j].frame.type = "input"

IsOpenProbe(e) == e.cause = "open"

\* how many times each of the three was set up, once the terminal exists
SetUps == <<onDataHandlers, resizeListeners, Len(SelectSeq(probeLog, IsOpenProbe))>>

\* C24: the input handler, the window resize listener and the initial
\* connection are set up exactly once, whatever the opens, toggles and
\* reconnections: one input event while connected sends exactly one input
\* frame, and one window resize sends at most one resize frame.
C24_HandlersSetUpOnce ==
  [][/\ SetUps' = (IF terminalSidebar' = "undefined" THEN <<0, 0, 0>> ELSE <<1, 1, 1>>)
     /\ (Len(inputLog') = Len(inputLog) + 1 /\ inputLog'[Len(inputLog')].open)
          => Added(sendLog, sendLog') = <<[sock |-> websocket, rs |-> "OPEN",
                 frame |-> InputFrame(inputLog'[Len(inputLog')].data)]>>
     /\ WindowResizeStep
          => /\ Len(sendLog') <= Len(sendLog) + 1
             /\ \A i \in 1..Len(Added(sendLog, sendLog')) :
                  Added(sendLog, sendLog')[i].frame = ResizeFrame(container')]_vars

\* the terminal was opened twice (two fit timers of openTerminal are pending);
\* then one input event on the open socket sent one input frame and one window
\* resize sent one resize frame
C24_Witness ==
  /\ Cardinality({i \in 1..Len(timers) : timers[i].kind = "fitOpen"}) = 2
  /\ Len(inputLog) = 1 /\ inputLog[1].open
  /\ Len(InputsSent) = 1
  /\ container = <<120, 40>>
  /\ Cardinality({i \in 1..Len(sendLog) : sendLog[i].frame = ResizeFrame(<<120, 40>>)}) = 1
  /\ sendLog[1].frame = ResizeFrame(<<DefaultCols, DefaultRows>>)

\* C22: server.sh start and restart stop every existing server before they
\* launch the new one: no server that was running when the script was called
\* is still alive at the moment start_server launches the new one.
C22_StopsBeforeStart ==
  \A i \in 1..Len(launchLog) : launchLog[i] = {}

====
